---- MODULE Spec2Model ----
(***************************************************************************)
(* Model of the IC test-fixture script compiler (python_src/parser.py) and *)
(* of the TestVector run-time class (python_src/testvector.py).            *)
(*                                                                         *)
(* Python values are tagged records, so that values of different Python    *)
(* types can be compared: None is [none |-> TRUE], an int n is             *)
(* [int |-> n], a str is [str |-> <<characters>>].  A str is the sequence  *)
(* of its characters, so that split, isdigit, startswith, int() and str()  *)
(* are computed as Python computes them.  Voltages that Python holds as    *)
(* floats (thresholds, ADC readings) are integers counting tenths of a     *)
(* volt: the code only compares them.                                      *)
(***************************************************************************)
EXTENDS Integers, Sequences, FiniteSets, TLC

VARIABLES
    pin_map,        \* TestVector.pin_map (class attribute)
    global_params,  \* TestVector.global_params (class attribute)
    call,           \* the operation being executed and its arguments
    ret,            \* what the last operation returned or raised
    vecs,           \* the TestVector objects the caller holds
    ser,            \* the lines written to the serial channel, in order
    measured,       \* the fixture's ADC readings during the last run of test
    ran             \* the held vectors whose test has written to ser, in order

vars == <<pin_map, global_params, call, ret, vecs, ser, measured, ran>>
classAttrs == <<pin_map, global_params>>
runState == <<vecs, ser, measured, ran>>

(***************************************************************************)
(* Python values                                                           *)
(***************************************************************************)
None == [none |-> TRUE]
PyInt(n) == [int |-> n]
PyStr(s) == [str |-> s]
IsInt(v) == DOMAIN v = {"int"}
IsStr(v) == DOMAIN v = {"str"}

Return(v) == [ret |-> v]
Raise(e) == [raise |-> e]
Raised(r) == DOMAIN r = {"raise"}
Returned(r) == DOMAIN r = {"ret"}

Idle == [op |-> "idle"]

(***************************************************************************)
(* Bounds of the model                                                     *)
(***************************************************************************)
MaxThld == 3   \* thresholds are drawn from 0..MaxThld (tenths of a volt)
MaxAdc == 4    \* ADC readings are drawn from 0..MaxAdc (tenths of a volt)

(***************************************************************************)
(* Text constants (str values as character sequences)                      *)
(***************************************************************************)
sH == <<"H">>
sL == <<"L">>
sX == <<"X">>
sZ == <<"Z">>
sS == <<"S">>
sT == <<"T">>
sU == <<"U">>
sR_CLK == <<"R", "_", "C", "L", "K">>
sF_CLK == <<"F", "_", "C", "L", "K">>
sQ_0 == <<"Q", "_", "0">>
s0V == <<"0", "V">>
s1_8V == <<"1", ".", "8", "V">>
s2_5V == <<"2", ".", "5", "V">>
s3_3V == <<"3", ".", "3", "V">>
s4V == <<"4", "V">>
s4_5V == <<"4", ".", "5", "V">>
s5V == <<"5", "V">>
sA == <<"A">>
sY == <<"Y">>

(***************************************************************************)
(* testvector.py: the class methods of TestVector                          *)
(***************************************************************************)

\* get_pin: an int is returned as it is, anything else is looked up in the
\* pin map (TypeError when the pin map is None, KeyError when it is absent).
get_pin(pm, pin_ref) ==
    IF IsInt(pin_ref) THEN Return(pin_ref.int)
    ELSE IF pm = None THEN Raise("TypeError")
    ELSE IF pin_ref.str \in DOMAIN pm.dict THEN Return(pm.dict[pin_ref.str])
    ELSE Raise("KeyError")

get_voltage_no_override(gp, logic, volt_type) ==
    IF logic \in {PyInt(0), PyStr(sL), PyStr(sX)} THEN Return(PyInt(0))
    ELSE IF gp = None THEN Raise("TypeError")
    ELSE IF "VCC Voltage" \in DOMAIN gp.dict
         THEN Return(PyStr(gp.dict["VCC Voltage"]))
    ELSE Raise("KeyError")

\* get_voltage: 0, "L" and "X" are driven with 0 volts; anything else with
\* the line's voltage when it has one, else with the VCC Voltage.
get_voltage(gp, logic, volt_type) ==
    IF logic \in {PyInt(0), PyStr(sL), PyStr(sX)} THEN Return(PyInt(0))
    ELSE IF volt_type # None THEN Return(volt_type)
    ELSE IF gp = None THEN Raise("TypeError")
    ELSE IF "VCC Voltage" \in DOMAIN gp.dict
         THEN Return(PyStr(gp.dict["VCC Voltage"]))
    ELSE Raise("KeyError")

logic_from_thld_strict(gp, adc_val, isInt) ==
    IF gp = None THEN Raise("TypeError")
    ELSE IF "Output High" \notin DOMAIN gp.dict THEN Raise("KeyError")
    ELSE IF adc_val > gp.dict["Output High"]
         THEN Return(IF isInt THEN PyInt(1) ELSE PyStr(sH))
    ELSE IF "Output Low" \notin DOMAIN gp.dict THEN Raise("KeyError")
    ELSE IF adc_val <= gp.dict["Output Low"]
         THEN Return(IF isInt THEN PyInt(0) ELSE PyStr(sL))
    ELSE Return(PyStr(sU))

\* logic_from_thld: the comparisons are made in the code's order, so that a
\* reading at or above Output High never consults Output Low.
logic_from_thld(gp, adc_val, isInt) ==
    IF gp = None THEN Raise("TypeError")
    ELSE IF "Output High" \notin DOMAIN gp.dict THEN Raise("KeyError")
    ELSE IF adc_val >= gp.dict["Output High"]
         THEN Return(IF isInt THEN PyInt(1) ELSE PyStr(sH))
    ELSE IF "Output Low" \notin DOMAIN gp.dict THEN Raise("KeyError")
    ELSE IF adc_val <= gp.dict["Output Low"]
         THEN Return(IF isInt THEN PyInt(0) ELSE PyStr(sL))
    ELSE Return(PyStr(sU))

(***************************************************************************)
(* The arguments the class methods are called with                         *)
(***************************************************************************)
PyDict(f) == [dict |-> f]

ThldDicts ==
    { PyDict([k \in {"Output Low", "Output High"} |->
                 IF k = "Output Low" THEN lo ELSE hi]) :
        lo \in 0..MaxThld, hi \in 0..MaxThld }

VoltDicts == { PyDict([k \in {"VCC Voltage"} |-> v]) : v \in {s5V, s3_3V} }

\* update_global_params is called with any dict, or with None (the tests'
\* fixture): it validates nothing.
GlobalParamArgs == {None} \cup ThldDicts \cup VoltDicts

PinMapArgs ==
    { None,
      PyDict([k \in {sA, sY} |-> IF k = sA THEN 3 ELSE 8]),
      PyDict([k \in {sA, <<"3">>} |-> IF k = sA THEN 3 ELSE 5]) }

PinRefArgs == { PyInt(9), PyInt(3), PyStr(sA), PyStr(sY), PyStr(<<"3">>) }

LogicArgs ==
    { PyInt(0), PyInt(1), PyStr(sL), PyStr(sX), PyStr(sH), PyStr(sZ),
      PyStr(sR_CLK), PyStr(<<"0">>) }

VoltTypeArgs == { None, PyStr(s3_3V), PyStr(s1_8V) }

(***************************************************************************)
(* Actions of the TestVector class                                         *)
(***************************************************************************)
update_global_params_keep(gp) == global_params' = global_params

\* update_pin_map, update_global_params: the class attribute is replaced
update_pin_map(pm) == pin_map' = pm
update_global_params(gp) == global_params' = gp

CallUpdatePinMap(pm) ==
    /\ call = Idle
    /\ update_pin_map(pm)
    /\ call' = [op |-> "update_pin_map", arg |-> pm]
    /\ ret' = Return(None)
    /\ UNCHANGED <<global_params, runState>>

CallUpdateGlobalParams(gp) ==
    /\ call = Idle
    /\ update_global_params(gp)
    /\ call' = [op |-> "update_global_params", arg |-> gp]
    /\ ret' = Return(None)
    /\ UNCHANGED <<pin_map, runState>>

CallGetPin(pin_ref) ==
    /\ call = Idle
    /\ call' = [op |-> "get_pin", pin_ref |-> pin_ref]
    /\ ret' = get_pin(pin_map, pin_ref)
    /\ UNCHANGED <<classAttrs, runState>>

CallGetVoltage(logic, volt_type) ==
    /\ call = Idle
    /\ call' = [op |-> "get_voltage", logic |-> logic, volt_type |-> volt_type]
    /\ ret' = get_voltage(global_params, logic, volt_type)
    /\ UNCHANGED <<classAttrs, runState>>

CallLogicFromThld(adc_val, isInt) ==
    /\ call = Idle
    /\ call' = [op |-> "logic_from_thld", adc_val |-> adc_val, isInt |-> isInt]
    /\ ret' = logic_from_thld(global_params, adc_val, isInt)
    /\ UNCHANGED <<classAttrs, runState>>

\* The caller takes the result: the next operation may start.
Done ==
    /\ call # Idle
    /\ call' = Idle
    /\ ret' = Return(None)
    /\ UNCHANGED <<classAttrs, runState>>

InitTV ==
    /\ pin_map = None
    /\ global_params = None
    /\ call = Idle
    /\ ret = Return(None)
    /\ vecs = <<>>
    /\ ser = <<>>
    /\ measured = None
    /\ ran = <<>>

NextTV ==
    \/ \E pm \in PinMapArgs : CallUpdatePinMap(pm)
    \/ \E gp \in GlobalParamArgs : CallUpdateGlobalParams(gp)
    \/ \E r \in PinRefArgs : CallGetPin(r)
    \/ \E l \in LogicArgs, v \in VoltTypeArgs : CallGetVoltage(l, v)
    \/ \E a \in 0..MaxAdc, b \in BOOLEAN : CallLogicFromThld(a, b)
    \/ Done

SpecTV == InitTV /\ [][NextTV]_vars

(***************************************************************************)
(* C1: with Output Low < Output High, logic_from_thld returns the High     *)
(* result ("H", or 1 when isInt) iff the reading is >= Output High, the    *)
(* Low result ("L", or 0 when isInt) iff it is <= Output Low, and "U" iff  *)
(* it lies strictly between, whatever isInt is; exactly one of the three.  *)
(***************************************************************************)
HasThlds(gp) ==
    /\ gp # None
    /\ {"Output Low", "Output High"} \subseteq DOMAIN gp.dict
    /\ gp.dict["Output Low"] < gp.dict["Output High"]

HighOf(isInt) == IF isInt THEN PyInt(1) ELSE PyStr(sH)
LowOf(isInt) == IF isInt THEN PyInt(0) ELSE PyStr(sL)

C1_Classification ==
    (call.op = "logic_from_thld" /\ HasThlds(global_params)) =>
        LET v == call.adc_val
            lo == global_params.dict["Output Low"]
            hi == global_params.dict["Output High"]
            isH == ret = Return(HighOf(call.isInt))
            isL == ret = Return(LowOf(call.isInt))
            isU == ret = Return(PyStr(sU))
        IN  /\ isH <=> v >= hi
            /\ isL <=> v <= lo
            /\ isU <=> (lo < v /\ v < hi)
            /\ Cardinality({b \in {<<1, isH>>, <<2, isL>>, <<3, isU>>} : b[2]}) = 1

\* A reading exactly at Output High, classified in integer mode.
C1_Witness ==
    /\ call.op = "logic_from_thld"
    /\ HasThlds(global_params)
    /\ call.adc_val = global_params.dict["Output High"]
    /\ call.isInt
    /\ ret = Return(PyInt(1))

(***************************************************************************)
(* C3: get_voltage returns 0 for every logic value in {0, "L", "X"}        *)
(* whatever the override is; for every other logic value it returns the    *)
(* override when there is one, and the shared VCC Voltage when there is     *)
(* none.                                                                   *)
(***************************************************************************)
C3_GetVoltage ==
    call.op = "get_voltage" =>
        IF call.logic \in {PyInt(0), PyStr(sL), PyStr(sX)}
        THEN ret = Return(PyInt(0))
        ELSE IF call.volt_type # None
        THEN ret = Return(call.volt_type)
        ELSE (global_params # None /\ "VCC Voltage" \in DOMAIN global_params.dict)
                => ret = Return(PyStr(global_params.dict["VCC Voltage"]))

\* "H" driven on a line with a 3.3V override while VCC Voltage is 5V.
C3_Witness ==
    /\ call.op = "get_voltage"
    /\ call.logic = PyStr(sH)
    /\ call.volt_type = PyStr(s3_3V)
    /\ global_params # None
    /\ "VCC Voltage" \in DOMAIN global_params.dict
    /\ global_params.dict["VCC Voltage"] = s5V
    /\ ret = Return(PyStr(s3_3V))

(***************************************************************************)
(* Python's str operations, on character sequences                         *)
(***************************************************************************)
DigitChars == <<"0", "1", "2", "3", "4", "5", "6", "7", "8", "9">>
Digits == { DigitChars[i] : i \in 1..10 }
DigitVal(c) == CHOOSE d \in 0..9 : DigitChars[d + 1] = c

\* s.isdigit(): not empty, every character a digit
isdigit(s) == Len(s) > 0 /\ \A i \in 1..Len(s) : s[i] \in Digits

\* s.startswith(p)
startswith(s, p) == Len(s) >= Len(p) /\ SubSeq(s, 1, Len(p)) = p

RECURSIVE split_from(_, _, _, _)
split_from(s, sep, i, cur) ==
    IF i > Len(s) THEN <<cur>>
    ELSE IF s[i] = sep THEN <<cur>> \o split_from(s, sep, i + 1, <<>>)
    ELSE split_from(s, sep, i + 1, Append(cur, s[i]))

\* s.split(sep): one piece more than there are separators, empty pieces kept
split(s, sep) == split_from(s, sep, 1, <<>>)

RECURSIVE digits_value(_, _)
digits_value(s, base) ==
    IF Len(s) = 0 THEN 0
    ELSE digits_value(SubSeq(s, 1, Len(s) - 1), base) * base + DigitVal(s[Len(s)])

\* int(s) of a digit string: base 10, leading zeros allowed
int_base10(s) == digits_value(s, 10)

\* int(s, 0) of a string that starts with "0b" or is all digits: the base
\* is taken from the prefix; a decimal literal with a leading zero is only
\* legal when it is zero; "0b" needs at least one binary digit.
int_base0(s) ==
    IF startswith(s, <<"0", "b">>)
    THEN LET r == SubSeq(s, 3, Len(s))
         IN  IF Len(r) > 0 /\ \A i \in 1..Len(r) : r[i] \in {"0", "1"}
             THEN Return(digits_value(r, 2))
             ELSE Raise("ValueError")
    ELSE IF s[1] = "0" /\ \E i \in 1..Len(s) : s[i] # "0"
    THEN Raise("ValueError")
    ELSE Return(digits_value(s, 10))

RECURSIVE str_of_nat(_)
str_of_nat(n) ==
    IF n < 10 THEN <<DigitChars[n + 1]>>
    ELSE Append(str_of_nat(n \div 10), DigitChars[(n % 10) + 1])

\* str(n) of an int
str_of_int(n) == IF n < 0 THEN <<"-">> \o str_of_nat(-n) ELSE str_of_nat(n)

(***************************************************************************)
(* parser.py: the macros and check_pin                                     *)
(***************************************************************************)
INPUT_LOGIC == {sH, sL, sR_CLK, sF_CLK, sX}
OUTPUT_LOGIC == {sH, sL, sZ, sX, sS, sT, sQ_0}
TRUTH_TABLE_LOGIC == INPUT_LOGIC \cup OUTPUT_LOGIC
SUPPORTED_VOLTAGES == {s0V, s1_8V, s2_5V, s3_3V, s4V, s4_5V, s5V}
MAX_PINS == 20

\* check_pin: whether the pin passes (0 < pin <= MAX_PINS)
check_pin(pin) == 0 < pin /\ pin <= MAX_PINS

(***************************************************************************)
(* parser.py: parse_test_io                                                *)
(***************************************************************************)

\* The pin number one element of the pin list stands for, checked by
\* check_pin: an int as it is, a digit string as its number, a name through
\* the pin map.
resolve_pin(pm, pin_name) ==
    LET val == IF IsInt(pin_name) THEN Return(pin_name.int)
               ELSE IF isdigit(pin_name.str) THEN Return(int_base10(pin_name.str))
               ELSE IF pm # None /\ pin_name.str \in DOMAIN pm.dict
                    THEN Return(pm.dict[pin_name.str])
               ELSE Raise("ValueError")
    IN  IF Raised(val) THEN val
        ELSE IF check_pin(val.ret) THEN val
        ELSE Raise("ValueError")

\* pin_names of a key: [pins] for an int, pins.split(",") for a str
pin_names_of(pins) ==
    IF IsInt(pins) THEN <<pins>>
    ELSE LET parts == split(pins.str, ",")
         IN  [i \in 1..Len(parts) |-> PyStr(parts[i])]

\* The pins field of the emitted IOCommand: pin_names, as split from the key
pins_emitted(pm, pins) == pin_names_of(pins)

infer_cmd_type_single_first(n, k) ==
    IF k = 1 THEN Return("single")
    ELSE IF n = k THEN Return("map")
    ELSE Raise("TestParseError")

\* The kind of a line that held neither an integer nor a truth-table
\* identifier, from its n pins and k values
infer_cmd_type(n, k) ==
    IF n = k THEN Return("map")
    ELSE IF k = 1 THEN Return("single")
    ELSE Raise("TestParseError")

\* Whether the mixing check lets a token of kind new_cmd_type follow the
\* tokens seen so far: it is made only once cmd_type is set.
mixing_rejected(cmd_type, new_cmd_type) ==
    /\ cmd_type # "None"
    /\ "truth_table" \in {cmd_type, new_cmd_type}
    /\ cmd_type # new_cmd_type

\* One token of the value list: what it appends and the kind it stands for
classify_token(pin_val, k, n, tt, valid_logic) ==
    IF startswith(pin_val, <<"0", "b">>) \/ isdigit(pin_val)
    THEN IF k # 1 THEN Raise("TestParseError")
         ELSE LET val == int_base0(pin_val)
              IN  IF Raised(val) THEN val
                  ELSE IF ~(val.ret <= 2^n - 1) THEN Raise("ValueError")
                  ELSE Return([vals |-> <<PyInt(val.ret)>>, kind |-> "map"])
    ELSE IF tt # None /\ DOMAIN tt.dict # {} /\ pin_val \in DOMAIN tt.dict
    THEN Return([vals |-> tt.dict[pin_val], kind |-> "truth_table"])
    ELSE IF pin_val \notin valid_logic THEN Raise("ValueError")
    ELSE Return([vals |-> <<PyStr(pin_val)>>, kind |-> "None"])

\* The mixing check on one classified token tok, then the rest of the loop
RECURSIVE parse_pin_vals(_, _, _, _, _, _, _)
after_token(tok, pin_vals, i, parsed, cmd_type, n, tt, valid_logic) ==
    IF Raised(tok) THEN tok
    ELSE IF cmd_type = "None"
    THEN parse_pin_vals(pin_vals, i + 1, parsed \o tok.ret.vals, tok.ret.kind,
                        n, tt, valid_logic)
    ELSE IF mixing_rejected(cmd_type, tok.ret.kind) THEN Raise("TestParseError")
    ELSE parse_pin_vals(pin_vals, i + 1, parsed \o tok.ret.vals, cmd_type,
                        n, tt, valid_logic)

\* The loop over the value tokens, from token i on, with the values parsed
\* and the kind set so far
parse_pin_vals(pin_vals, i, parsed, cmd_type, n, tt, valid_logic) ==
    IF i > Len(pin_vals) THEN Return([vals |-> parsed, kind |-> cmd_type])
    ELSE after_token(classify_token(pin_vals[i], Len(pin_vals), n, tt, valid_logic),
                     pin_vals, i, parsed, cmd_type, n, tt, valid_logic)

\* The first pin of the list, from element i on, that does not resolve
RECURSIVE check_pin_names(_, _, _)
check_pin_names(pm, names, i) ==
    IF i > Len(names) THEN Return(None)
    ELSE IF Raised(resolve_pin(pm, names[i])) THEN resolve_pin(pm, names[i])
    ELSE check_pin_names(pm, names, i + 1)

IOCommand(pins, pin_vals, volt_type, cmd_type) ==
    [pins |-> pins, pin_vals |-> pin_vals, volt_type |-> volt_type,
     cmd_type |-> cmd_type]

\* The kind of the line, once its values r are parsed, and its IOCommand
emit_command(r, pins, voltage, n, k) ==
    IF Raised(r) THEN r
    ELSE IF r.ret.kind # "None"
    THEN Return(IOCommand(pins, r.ret.vals, voltage, r.ret.kind))
    ELSE IF Raised(infer_cmd_type(n, k)) THEN infer_cmd_type(n, k)
    ELSE Return(IOCommand(pins, r.ret.vals, voltage, infer_cmd_type(n, k).ret))

\* The value of the line, normalized to text: its tokens, its voltage
parse_value(text, pins, n, pm, tt, valid_logic) ==
    LET cmd == split(text, " ")
        pin_vals == split(cmd[1], ",")
        voltage == IF Len(cmd) >= 2 THEN PyStr(cmd[Len(cmd)]) ELSE None
    IN  IF voltage # None /\ voltage.str \notin SUPPORTED_VOLTAGES
        THEN Raise("ValueError")
        ELSE emit_command(
                 parse_pin_vals(pin_vals, 1, <<>>, "None", n, tt, valid_logic),
                 pins_emitted(pm, pins), voltage, n, Len(pin_vals))

\* One iteration of parse_test_io's loop: the line  pins: value
parse_io_line(pins, value, pm, tt, valid_logic) ==
    IF ~(IsInt(pins) \/ IsStr(pins)) THEN Raise("TypeError")
    ELSE IF Raised(check_pin_names(pm, pin_names_of(pins), 1))
    THEN check_pin_names(pm, pin_names_of(pins), 1)
    ELSE IF ~(IsInt(value) \/ IsStr(value)) THEN Raise("TypeError")
    ELSE parse_value(IF IsStr(value) THEN value.str ELSE str_of_int(value.int),
                     pins, Len(pin_names_of(pins)), pm, tt, valid_logic)

\* parse_test_io: io is the dict's items in order; the first line that
\* fails raises, else the list of the lines' IOCommands is returned
RECURSIVE parse_test_io_from(_, _, _, _, _, _)
after_line(r, io, i, vec, pm, tt, valid_logic) ==
    IF Raised(r) THEN r
    ELSE parse_test_io_from(io, i + 1, Append(vec, r.ret), pm, tt, valid_logic)

parse_test_io_from(io, i, vec, pm, tt, valid_logic) ==
    IF i > Len(io) THEN Return(vec)
    ELSE after_line(parse_io_line(io[i][1], io[i][2], pm, tt, valid_logic),
                    io, i, vec, pm, tt, valid_logic)

parse_test_io(io, pm, tt, valid_logic) ==
    parse_test_io_from(io, 1, <<>>, pm, tt, valid_logic)

(***************************************************************************)
(* The lines parse_test_io is called with                                  *)
(***************************************************************************)
MaxPins == 3   \* a line lists at most MaxPins pins
MaxVals == 3   \* a value list holds at most MaxVals tokens

RECURSIVE join(_, _)
join(parts, sep) ==
    IF Len(parts) = 0 THEN <<>>
    ELSE IF Len(parts) = 1 THEN parts[1]
    ELSE parts[1] \o <<sep>> \o join(Tail(parts), sep)

sCol == <<"a">>
sQ == <<"Q">>

\* Pin numbers in the order the multi-pin keys list them: "1,3", "1,3,2", ...
PinOrder(i) == IF i = 1 THEN 1 ELSE IF i = 2 THEN 3 ELSE IF i = 3 THEN 2 ELSE i

PinListKey(n) == PyStr(join([i \in 1..n |-> str_of_int(PinOrder(i))], ","))

KeyArgs ==
    { PyInt(3), PyStr(sA), PyStr(<<"3">>), PyStr(sQ), PyStr(<<"2", "1">>),
      PyStr(<<"0">>), PyStr(join(<<sA, sY>>, ",")), None }
    \cup { PinListKey(n) : n \in 2..MaxPins }

\* Value lists of 1..MaxVals tokens: a symbol of both vocabularies, an
\* output-only symbol and a truth-table identifier
TokenAlphabet == { sH, sZ, sCol }

TokenLists ==
    UNION { [1..k -> TokenAlphabet] : k \in 1..MaxVals }

\* Value lists that hold a digit next to another token
DigitLists ==
    { <<t, <<"1">>>> : t \in TokenAlphabet \cup { <<"1">> } }
    \cup { <<<<"1">>, t>> : t \in TokenAlphabet }

\* Lone integer literals: decimal, decimal with leading zeros, binary
\* (well and ill formed), and ints as the YAML loader delivers them
IntLiterals ==
    { PyStr(str_of_int(v)) : v \in 0..(2^MaxPins) }
    \cup { PyStr(<<"0", "5">>), PyStr(<<"0", "0">>), PyStr(<<"0", "b">>),
           PyStr(<<"0", "b", "1", "0", "1">>),
           PyStr(<<"0", "b", "1", "0", "0", "0">>),
           PyStr(<<"0", "b", "2">>) }
    \cup { PyInt(v) : v \in {-1, 5, 8} }

WithVoltage ==
    { PyStr(v \o <<" ">> \o volt) :
        v \in { sH, join(<<sH, sH>>, ","), <<"5">>, sCol },
        volt \in { s5V, s3_3V, <<"7", "V">> } }

ValueArgs ==
    { PyStr(join(toks, ",")) : toks \in TokenLists \cup DigitLists }
    \cup IntLiterals \cup WithVoltage \cup { None }

IOPinMaps == { None, PyDict([k \in {sA, sY} |-> IF k = sA THEN 3 ELSE 8]) }

\* A compiled truth table: one column, two rows
IOTruthTables == { None, PyDict([k \in {sCol} |-> <<PyStr(sH), PyStr(sL)>>]) }

Vocabularies == { INPUT_LOGIC, OUTPUT_LOGIC }

TwoLineIOs ==
    { <<<<PyStr(sA), PyStr(sH)>>, <<PyStr(sY), v>>>> :
        v \in { PyStr(sL), PyStr(sQ), PyInt(1), PyInt(2) } }

IOArgs == { <<<<k, v>>>> : k \in KeyArgs, v \in ValueArgs } \cup TwoLineIOs

CallParseTestIo(io, pm, tt, valid_logic) ==
    /\ call = Idle
    /\ call' = [op |-> "parse_test_io", io |-> io, pin_map |-> pm,
                truth_table |-> tt, valid_logic |-> valid_logic]
    /\ ret' = parse_test_io(io, pm, tt, valid_logic)
    /\ UNCHANGED <<classAttrs, runState>>

NextIO ==
    \/ /\ call = Idle
       /\ \E io \in IOArgs, pm \in IOPinMaps, tt \in IOTruthTables,
             vl \in Vocabularies : CallParseTestIo(io, pm, tt, vl)
    \/ Done

SpecIO == InitTV /\ [][NextIO]_vars

(***************************************************************************)
(* The parts of one line handed to parse_test_io                           *)
(***************************************************************************)
OneLine == call.op = "parse_test_io" /\ Len(call.io) = 1
LineKey == call.io[1][1]
LineValue == call.io[1][2]
LineText == IF IsStr(LineValue) THEN LineValue.str ELSE str_of_int(LineValue.int)
LineTokens == split(split(LineText, " ")[1], ",")
LineHasVoltage == Len(split(LineText, " ")) >= 2
LineNames == pin_names_of(LineKey)

\* The line's key and value have the types the parser takes and every pin
\* of the key resolves to a pin in range
LineWellFormed ==
    /\ OneLine
    /\ IsInt(LineKey) \/ IsStr(LineKey)
    /\ IsInt(LineValue) \/ IsStr(LineValue)
    /\ Returned(check_pin_names(call.pin_map, LineNames, 1))

IsIdentifier(tok) ==
    /\ call.truth_table # None
    /\ tok \in DOMAIN call.truth_table.dict

IsDecLiteral(tok) == isdigit(tok)
IsBinLiteral(tok) ==
    /\ startswith(tok, <<"0", "b">>)
    /\ Len(tok) > 2
    /\ \A i \in 3..Len(tok) : tok[i] \in {"0", "1"}
LiteralValue(tok) ==
    IF IsDecLiteral(tok) THEN digits_value(tok, 10)
    ELSE digits_value(SubSeq(tok, 3, Len(tok)), 2)

(***************************************************************************)
(* C5: a value line that holds at least one truth-table identifier and at  *)
(* least one token of another kind is rejected, wherever the tokens stand; *)
(* no IOCommand of kind truth_table is emitted whose value list also holds *)
(* a token that did not come from a truth-table column.                    *)
(***************************************************************************)
C5_MixedLineRejected ==
    LineWellFormed =>
        /\ ( /\ \E i \in 1..Len(LineTokens) : IsIdentifier(LineTokens[i])
             /\ \E j \in 1..Len(LineTokens) : ~IsIdentifier(LineTokens[j]) )
           => Raised(ret)
        /\ (Returned(ret) /\ ret.ret[1].cmd_type = "truth_table")
           => \A i \in 1..Len(LineTokens) : IsIdentifier(LineTokens[i])

(***************************************************************************)
(* C6: for a line with n pins whose value is a single integer literal v    *)
(* (decimal digits or 0b-prefixed binary), parse_test_io succeeds iff      *)
(* 0 <= v <= 2^n - 1, and then emits kind map.                             *)
(***************************************************************************)
LoneIntegerLiteral ==
    /\ LineWellFormed
    /\ ~LineHasVoltage
    /\ Len(LineTokens) = 1
    /\ IsDecLiteral(LineTokens[1]) \/ IsBinLiteral(LineTokens[1])

C6_IntegerRange ==
    LoneIntegerLiteral =>
        LET v == LiteralValue(LineTokens[1])
            n == Len(LineNames)
        IN  /\ Returned(ret) <=> (0 <= v /\ v <= 2^n - 1)
            /\ Returned(ret) => ret.ret[1].cmd_type = "map"

(***************************************************************************)
(* C7: a line keyed by a Pin Map name p and a line keyed by the digit      *)
(* string of PinMap[p] resolve to the same pin index, the pins list of the *)
(* emitted IOCommand holds that index, and get_pin gives it for both       *)
(* references.                                                             *)
(***************************************************************************)
C7_PinsResolved ==
    (LineWellFormed /\ Returned(ret) /\ call.pin_map # None) =>
        \A i \in 1..Len(LineNames) :
            (IsStr(LineNames[i]) /\ LineNames[i].str \in DOMAIN call.pin_map.dict) =>
            LET index == resolve_pin(call.pin_map, LineNames[i]).ret
                digits == PyStr(str_of_int(index))
            IN  /\ resolve_pin(call.pin_map, digits) = Return(index)
                /\ ret.ret[1].pins[i] = PyInt(index)
                /\ get_pin(call.pin_map, LineNames[i]) = Return(index)
                /\ get_pin(call.pin_map, digits) = Return(index)

(***************************************************************************)
(* C8 (as stated): for a line of n pins whose k value tokens are all       *)
(* literal logic symbols, k = 1 yields kind single for every n >= 1;       *)
(* k >= 2 and k = n yields map; every other (n, k) is rejected and emits   *)
(* no command.                                                             *)
(***************************************************************************)
AllLiteralSymbols ==
    /\ LineWellFormed
    /\ ~LineHasVoltage
    /\ \A i \in 1..Len(LineTokens) :
          /\ LineTokens[i] \in call.valid_logic
          /\ ~IsIdentifier(LineTokens[i])

C8_SingleWheneverOneValue ==
    AllLiteralSymbols =>
        LET n == Len(LineNames)
            k == Len(LineTokens)
        IN  IF k = 1 THEN Returned(ret) /\ ret.ret[1].cmd_type = "single"
            ELSE IF k = n THEN Returned(ret) /\ ret.ret[1].cmd_type = "map"
            ELSE ret = Raise("TestParseError")

(***************************************************************************)
(* C8 (amended): for a line of n pins whose k value tokens are all literal *)
(* logic symbols, k = n yields kind map, also for n = k = 1; k = 1 with    *)
(* n >= 2 yields single; every other (n, k) is rejected with               *)
(* TestParseError and emits no command.                                    *)
(***************************************************************************)
C8_KindFromCardinality ==
    AllLiteralSymbols =>
        LET n == Len(LineNames)
            k == Len(LineTokens)
        IN  IF k = n THEN Returned(ret) /\ ret.ret[1].cmd_type = "map"
            ELSE IF k = 1 THEN Returned(ret) /\ ret.ret[1].cmd_type = "single"
            ELSE ret = Raise("TestParseError")

\* The one-pin line  A: "H"  has been compiled, to kind map.
C8_Witness ==
    /\ AllLiteralSymbols
    /\ LineKey = PyStr(sA)
    /\ LineValue = PyStr(sH)
    /\ Returned(ret)
    /\ ret.ret[1].cmd_type = "map"
    /\ ret.ret[1].pin_vals = <<PyStr(sH)>>

(***************************************************************************)
(* parser.py: check_keys, parse_global_params, parse_pin_map,              *)
(* parse_truth_table                                                       *)
(*                                                                         *)
(* A section that is a dict with fixed keys (the script, Global            *)
(* Parameters, a test) is a function on the keys it holds.  Pins and       *)
(* thresholds are ints, VCC Voltage is a character sequence; CLK Freq,     *)
(* which may be text or a number, is a tagged value.  A dict whose order   *)
(* of iteration decides which error is raised first (a truth-table row,    *)
(* Tests, Inputs, Outputs) is the sequence of its items.                   *)
(***************************************************************************)
CLOCK_MAX == -1
CLOCK_MIN == -1

\* check_keys: MissingKeys when a required key is absent (unexpected keys
\* only warn)
check_keys(exp_keys, opt_keys, got_keys) ==
    IF exp_keys \ got_keys # {} THEN Raise("MissingKeys") ELSE Return(None)

\* Python's truth value of a number that may be absent: present and not 0
Truthy(d, key) == key \in DOMAIN d /\ d[key] # 0

\* The first threshold, in the order of the code's loop, that is present,
\* not 0 and negative
negative_thld(gp) ==
    \E key \in {"Output Low", "Output High", "Input Low", "Input High"} :
        Truthy(gp, key) /\ gp[key] < 0

\* The CLK Freq check.  For a text value the code matches the pattern
\* against global_params[param], where param is still the last key of the
\* pin loop, "GND Pin": an int, so that re.match raises TypeError.
check_clk_freq(gp) ==
    IF "CLK Freq" \notin DOMAIN gp THEN Return(gp)
    ELSE LET clk_freq == gp["CLK Freq"]
             truthy == \/ IsInt(clk_freq) /\ clk_freq.int # 0
                       \/ IsStr(clk_freq) /\ Len(clk_freq.str) > 0
         IN  IF ~truthy THEN Return(gp)
             ELSE IF IsStr(clk_freq) THEN Raise("TypeError")
             ELSE IF ~(CLOCK_MIN <= clk_freq.int /\ clk_freq.int <= CLOCK_MAX)
             THEN Raise("ValueError")
             ELSE Return(gp)

\* parse_global_params: the parameters as the call leaves them, or the
\* first error
parse_global_params(gp) ==
    LET keys == check_keys({"VCC Pin", "GND Pin", "VCC Voltage", "Output Low",
                            "Output High"},
                           {"CLK Freq", "Input Low", "Input High"}, DOMAIN gp)
    IN
    IF Raised(keys) THEN keys
    ELSE IF ~check_pin(gp["VCC Pin"]) \/ ~check_pin(gp["GND Pin"])
    THEN Raise("ValueError")
    ELSE IF gp["VCC Pin"] = gp["GND Pin"] THEN Raise("ValueError")
    ELSE IF gp["VCC Voltage"] \notin SUPPORTED_VOLTAGES THEN Raise("ValueError")
    ELSE IF negative_thld(gp) THEN Raise("ValueError")
    ELSE IF gp["Output Low"] >= gp["Output High"] THEN Raise("ValueError")
    ELSE IF /\ Truthy(gp, "Input Low")
            /\ Truthy(gp, "Input High")
            /\ gp["Input Low"] >= gp["Input High"]
    THEN Raise("ValueError")
    ELSE check_clk_freq(gp)

\* parse_pin_map: every entry in range and neither the VCC nor the GND pin
\* (every failure is a ValueError, so the order of the entries is not kept)
parse_pin_map(pm, vcc_pin, gnd_pin) ==
    IF \E name \in DOMAIN pm :
          \/ ~check_pin(pm[name])
          \/ pm[name] = vcc_pin
          \/ pm[name] = gnd_pin
    THEN Raise("ValueError")
    ELSE Return(None)

RowKeys(row) == { row[j][1] : j \in 1..Len(row) }

\* The items of row i from item j on: each cell is checked and stored
RECURSIVE parse_tt_items(_, _, _, _, _)
parse_tt_items(row, i, j, col_names, tt) ==
    IF j > Len(row) THEN Return(tt)
    ELSE LET key == row[j][1]
             cell == row[j][2]
         IN  IF key \notin col_names THEN Raise("TableParseError")
             ELSE IF key \in TRUTH_TABLE_LOGIC THEN Raise("ValueError")
             ELSE IF ~(IsStr(cell) /\ cell.str \in TRUTH_TABLE_LOGIC)
             THEN Raise("ValueError")
             ELSE parse_tt_items(row, i, j + 1, col_names,
                                 [tt EXCEPT ![key][i] = cell])

RECURSIVE parse_tt_rows_no_count(_, _, _, _, _)
parse_tt_rows_no_count(truth_table, i, col_num, col_names, tt) ==
    IF i > Len(truth_table) THEN Return(PyDict(tt))
    ELSE IF Raised(parse_tt_items(truth_table[i], i, 1, col_names, tt))
    THEN parse_tt_items(truth_table[i], i, 1, col_names, tt)
    ELSE parse_tt_rows_no_count(truth_table, i + 1, col_num, col_names,
             parse_tt_items(truth_table[i], i, 1, col_names, tt).ret)

RECURSIVE parse_tt_rows(_, _, _, _, _)
after_row(r, truth_table, i, col_num, col_names) ==
    IF Raised(r) THEN r
    ELSE parse_tt_rows(truth_table, i + 1, col_num, col_names, r.ret)

parse_tt_rows(truth_table, i, col_num, col_names, tt) ==
    IF i > Len(truth_table) THEN Return(PyDict(tt))
    ELSE IF Len(truth_table[i]) # col_num THEN Raise("TableParseError")
    ELSE after_row(parse_tt_items(truth_table[i], i, 1, col_names, tt),
                   truth_table, i, col_num, col_names)

\* parse_truth_table: the rows restructured into one list per column of the
\* first row, every cell None until its row stores it
parse_truth_table(truth_table) ==
    IF Len(truth_table) = 0 THEN Raise("IndexError")
    ELSE LET col_names == RowKeys(truth_table[1])
         IN  parse_tt_rows(truth_table, 1, Len(truth_table[1]), col_names,
                 [col \in col_names |-> [i \in 1..Len(truth_table) |-> None]])

(***************************************************************************)
(* testvector.py: TestVector.__init__; parser.py: parse_tests, parse       *)
(***************************************************************************)

\* self.results: a new list whose i-th element is the list object
\* outputs[i].pin_vals itself, held here as a reference to it
results_of(outputs) ==
    [i \in 1..Len(outputs) |-> [same_list_as_output |-> i]]

TestVector(inputs, outputs, test_name) ==
    [inputs |-> inputs, outputs |-> outputs, results |-> results_of(outputs),
     test_name |-> test_name, passed |-> FALSE]

RECURSIVE parse_tests_from(_, _, _, _, _)
after_outputs(output_cmds, input_cmds, tests, i, test_vecs, pm, tt) ==
    IF Raised(output_cmds) THEN output_cmds
    ELSE parse_tests_from(tests, i + 1,
             Append(test_vecs, TestVector(input_cmds, output_cmds.ret, tests[i][1])),
             pm, tt)

after_inputs(input_cmds, tests, i, test_vecs, pm, tt) ==
    IF Raised(input_cmds) THEN input_cmds
    ELSE after_outputs(
             parse_test_io(tests[i][2]["Outputs"], pm, tt, OUTPUT_LOGIC),
             input_cmds.ret, tests, i, test_vecs, pm, tt)

parse_tests_from(tests, i, test_vecs, pm, tt) ==
    IF i > Len(tests) THEN Return(test_vecs)
    ELSE IF Raised(check_keys({"Inputs", "Outputs"}, {}, DOMAIN tests[i][2]))
    THEN check_keys({"Inputs", "Outputs"}, {}, DOMAIN tests[i][2])
    ELSE after_inputs(parse_test_io(tests[i][2]["Inputs"], pm, tt, INPUT_LOGIC),
                      tests, i, test_vecs, pm, tt)

\* parse_tests: one TestVector per test, in order, or the first error
parse_tests(tests, pm, tt) == parse_tests_from(tests, 1, <<>>, pm, tt)

Section(data, key) == IF key \in DOMAIN data THEN data[key] ELSE None

compiled(test_vecs, data, gp) ==
    IF Raised(test_vecs) THEN test_vecs
    ELSE Return([chip_info |-> Section(data, "Chip Info"),
                 test_vecs |-> test_vecs.ret,
                 pin_map |-> Section(data, "Pin Map"),
                 global_params |-> PyDict(gp)])

after_truth_table(tt, data, gp) ==
    IF Raised(tt) THEN tt
    ELSE compiled(parse_tests(data["Tests"].list, Section(data, "Pin Map"), tt.ret),
                  data, gp)

after_pin_map(pm, data, gp) ==
    IF Raised(pm) THEN pm
    ELSE after_truth_table(
             IF Section(data, "Truth Table") # None
             THEN parse_truth_table(data["Truth Table"].list)
             ELSE Return(None),
             data, gp)

after_global_params(gp, data) ==
    IF Raised(gp) THEN gp
    ELSE after_pin_map(
             IF Section(data, "Pin Map") # None
             THEN parse_pin_map(data["Pin Map"].dict, gp.ret["VCC Pin"],
                                gp.ret["GND Pin"])
             ELSE Return(None),
             data, gp.ret)

\* The body of parse's try block: the sections are parsed in the code's
\* order and the first error ends it
parse_sections(data) ==
    after_global_params(parse_global_params(data["Global Parameters"].dict), data)

\* except Exception: the error is printed and ParseError raised in its place
wrap_parse_error(r) == IF Raised(r) THEN Raise("ParseError") ELSE r

\* parse, on the loaded script: the required sections are checked before
\* the try block is entered
parse_outcome(data) ==
    IF Raised(check_keys({"Global Parameters", "Tests"},
                         {"Chip Info", "Pin Map", "Truth Table"}, DOMAIN data))
    THEN check_keys({"Global Parameters", "Tests"},
                    {"Chip Info", "Pin Map", "Truth Table"}, DOMAIN data)
    ELSE wrap_parse_error(parse_sections(data))

(***************************************************************************)
(* The scripts parse is called with                                        *)
(***************************************************************************)
MaxHeld == 2   \* the caller holds at most MaxHeld compiled vectors

GlobalParams(vcc, gnd, volt, lo, hi) ==
    ("VCC Pin" :> vcc) @@ ("GND Pin" :> gnd) @@ ("VCC Voltage" :> volt)
    @@ ("Output Low" :> lo) @@ ("Output High" :> hi)

Without(d, key) == [k \in DOMAIN d \ {key} |-> d[k]]

\* Output Low 0.3 V, Output High 3.4 V, as in the tests of testvector.py
GP_A == GlobalParams(6, 7, s5V, 3, 34)
GP_B == GlobalParams(1, 2, s3_3V, 2, 20)

PM_A == PyDict((sA :> 3) @@ (sY :> 8))

PyList(seq) == [list |-> seq]

TT_Good == PyList(<< <<<<sCol, PyStr(sH)>>>>, <<<<sCol, PyStr(sL)>>>> >>)
TT_ShortRow ==
    PyList(<< <<<<sCol, PyStr(sH)>>, <<sQ, PyStr(sL)>>>>, <<<<sCol, PyStr(sL)>>>> >>)
TT_Reserved == PyList(<< <<<<sH, PyStr(sH)>>>> >>)

Line(key, value) == <<PyStr(key), PyStr(value)>>

Test(name, ins, outs) == <<name, [Inputs |-> ins, Outputs |-> outs]>>

Script(gp, tests) ==
    ("Global Parameters" :> PyDict(gp)) @@ ("Tests" :> PyList(tests))

ScriptA ==
    Script(GP_A, <<Test("a1", <<Line(sA, sH)>>, <<Line(sY, sL)>>)>>)
    @@ ("Pin Map" :> PM_A)

ScriptB ==
    Script(GP_B, <<Test("b1", <<Line(<<"3">>, sH)>>, <<Line(<<"4">>, sL)>>)>>)

ScriptC ==
    Script(GP_A @@ ("CLK Freq" :> PyInt(-1)),
           <<Test("c1", <<Line(sA, sCol)>>, <<Line(sY, sCol)>>)>>)
    @@ ("Pin Map" :> PM_A) @@ ("Truth Table" :> TT_Good)

ScriptD ==
    Script(GP_B,
           <<Test("d1", <<Line(<<"3">>, sH)>>, <<Line(<<"4">>, sZ)>>),
             Test("d2", <<Line(join(<<<<"3">>, <<"5">>>>, ","), <<"2">>)>>,
                        <<Line(<<"4">>, sH \o <<" ">> \o s5V)>>)>>)
    @@ ("Chip Info" :> PyStr(<<"7", "4", "0", "0">>))

\* A truth-table column that holds the output-only symbol Z, referenced by
\* an input line
TT_OutputOnly == PyList(<< <<<<sCol, PyStr(sZ)>>>>, <<<<sCol, PyStr(sL)>>>> >>)

ScriptE ==
    Script(GP_A, <<Test("f1", <<Line(sA, sCol)>>, <<Line(sY, sL)>>)>>)
    @@ ("Pin Map" :> PM_A) @@ ("Truth Table" :> TT_OutputOnly)

\* An input line that names pin 6, the VCC Pin of GP_A, by its number
ScriptF ==
    Script(GP_A, <<Test("g1", <<Line(<<"6">>, sH)>>, <<Line(sY, sL)>>)>>)
    @@ ("Pin Map" :> PM_A)

GoodScripts == { ScriptA, ScriptB, ScriptC, ScriptD, ScriptE, ScriptF }

\* Scripts that fail, one or more for each stage of parse
BadScripts ==
    { Without(ScriptA, "Tests"),
      Without(ScriptA, "Global Parameters"),
      Without(ScriptB, "Tests"),
      ("Global Parameters" :> PyDict(Without(GP_A, "Output High")))
          @@ ScriptA,
      ("Global Parameters" :> PyDict(GlobalParams(6, 6, s5V, 3, 34))) @@ ScriptA,
      ("Global Parameters" :> PyDict(GlobalParams(6, 7, s5V, 34, 34))) @@ ScriptA,
      ("Global Parameters" :> PyDict(GlobalParams(6, 7, <<"7", "V">>, 3, 34)))
          @@ ScriptA,
      ("Global Parameters" :>
          PyDict(GP_B @@ ("CLK Freq" :> PyStr(<<"1", " ", "k">>)))) @@ ScriptB,
      ("Global Parameters" :> PyDict(GP_B @@ ("CLK Freq" :> PyInt(1000))))
          @@ ScriptB,
      ("Pin Map" :> PyDict((sA :> 6) @@ (sY :> 8))) @@ ScriptA,
      ("Pin Map" :> PyDict((sA :> 3) @@ (sY :> 21))) @@ ScriptA,
      ScriptA @@ ("Truth Table" :> TT_ShortRow),
      ScriptA @@ ("Truth Table" :> TT_Reserved),
      ScriptA @@ ("Truth Table" :> PyList(<<>>)),
      Script(GP_B, <<<<"e1", [Inputs |-> <<Line(<<"3">>, sH)>>]>>>>),
      Script(GP_B, <<Test("e2", <<Line(sA, sH)>>, <<Line(<<"4">>, sL)>>)>>),
      Script(GP_B, <<Test("e3", <<Line(<<"3">>, sH)>>, <<Line(<<"4">>, sL)>>),
                     Test("e4", <<Line(<<"3">>, sZ)>>, <<Line(<<"4">>, sL)>>)>>),
      Script(GP_B, <<Test("e5", <<Line(<<"3">>, sH)>>,
                               <<Line(<<"4">>, join(<<sH, sL>>, ","))>>)>>) }

Scripts == GoodScripts \cup BadScripts

ParseUpdateArgs == { None, PyDict(GP_A) }
ParsePinMapArgs == { None, PM_A }

Keep(seq) == IF Len(seq) <= MaxHeld THEN seq ELSE SubSeq(seq, 1, MaxHeld)

\* What parse does once its outcome r is known: on success the class
\* attributes are replaced and (chip_info, test_vecs) is returned to the
\* caller, who keeps the vectors; on failure the error is raised
finish_parse(r) ==
    IF Returned(r)
    THEN /\ update_pin_map(r.ret.pin_map)
         /\ update_global_params(r.ret.global_params)
         /\ ret' = Return(<<r.ret.chip_info, r.ret.test_vecs>>)
         /\ vecs' = Keep(vecs \o r.ret.test_vecs)
         /\ UNCHANGED <<ser, measured, ran>>
    ELSE /\ ret' = r
         /\ UNCHANGED <<classAttrs, runState>>

\* parse(file_path), on the script the loader returns
CallParse(data) ==
    /\ call = Idle
    /\ call' = [op |-> "parse", data |-> data]
    /\ finish_parse(parse_outcome(data))

NextParse ==
    \/ \E data \in Scripts : CallParse(data)
    \/ \E pm \in ParsePinMapArgs : CallUpdatePinMap(pm)
    \/ \E gp \in ParseUpdateArgs : CallUpdateGlobalParams(gp)
    \/ Done

SpecParse == InitTV /\ [][NextParse]_vars

(***************************************************************************)
(* C4: every failure of parse(), at any stage, surfaces as ParseError,     *)
(* never as the underlying error type; on a failure no test-vector list is *)
(* returned and TestVector.pin_map / global_params are left as they were.  *)
(***************************************************************************)
C4_FailureIsParseError ==
    [][ (call = Idle /\ call'.op = "parse" /\ ~Returned(ret')) =>
            /\ ret' = Raise("ParseError")
            /\ UNCHANGED <<classAttrs, vecs>> ]_vars

(***************************************************************************)
(* C9 (as stated): the context seen by a compiled TestVector is written    *)
(* once and never changes afterwards: once the caller holds a compiled     *)
(* vector, no parse() or update_* call changes the pin map or the global   *)
(* parameters its class methods use.                                       *)
(***************************************************************************)
C9_ContextWrittenOnce ==
    [][ vecs # <<>> => UNCHANGED classAttrs ]_vars

(***************************************************************************)
(* C9 (amended): the context seen by every compiled TestVector is the      *)
(* shared class-level pin map and global parameters, which the last        *)
(* writer sets: a successful parse() replaces both by its script's Pin Map *)
(* (None when the script has none) and Global Parameters, for the vectors  *)
(* of earlier scripts too; update_pin_map / update_global_params replace   *)
(* one by their argument; a failed parse() and every other operation leave *)
(* both unchanged.                                                         *)
(***************************************************************************)
ParseReturns == call = Idle /\ call'.op = "parse" /\ Returned(ret')
PinMapUpdated == call = Idle /\ call'.op = "update_pin_map"
GlobalParamsUpdated == call = Idle /\ call'.op = "update_global_params"

LastWriterWins ==
    /\ ParseReturns =>
           /\ pin_map' = Section(call'.data, "Pin Map")
           /\ global_params' = call'.data["Global Parameters"]
    /\ PinMapUpdated => pin_map' = call'.arg
    /\ GlobalParamsUpdated => global_params' = call'.arg
    /\ ~(ParseReturns \/ PinMapUpdated) => UNCHANGED pin_map
    /\ ~(ParseReturns \/ GlobalParamsUpdated) => UNCHANGED global_params

C9_LastWriterWins == [][LastWriterWins]_vars

\* The caller holds the vector a1 compiled from script A, script B has just
\* been compiled, and a reading of 2.5 V that A's thresholds leave
\* undefined is now classified High.
C9_Witness ==
    /\ Len(vecs) >= 1
    /\ vecs[1].test_name = "a1"
    /\ call.op = "parse"
    /\ call.data = ScriptB
    /\ Returned(ret)
    /\ global_params = PyDict(GP_B)
    /\ pin_map = None
    /\ logic_from_thld(PyDict(GP_A), 25, FALSE) = Return(PyStr(sU))
    /\ logic_from_thld(global_params, 25, FALSE) = Return(PyStr(sH))

(***************************************************************************)
(* testvector.py: TestVector.test, and the results buffer                  *)
(***************************************************************************)
MaxSer == 2    \* at most MaxSer lines are written to the serial channel

\* The line test writes first: f"PRM:{VCC Pin},{GND Pin},{VCC Voltage}\n"
prm_line(gp) ==
    <<"P", "R", "M", ":">> \o str_of_int(gp["VCC Pin"]) \o <<",">>
    \o str_of_int(gp["GND Pin"]) \o <<",">> \o gp["VCC Voltage"] \o <<"\n">>

\* results[o][j] = c: the list object results[o] stands for is changed
write_result(vec, o, j, c) ==
    [vec EXCEPT !.outputs[vec.results[o].same_list_as_output].pin_vals[j] = c]

\* The readings the fixture can give for a vector: one per output value,
\* from below both Output Low thresholds to above both Output High
AdcReadings == { 0, 25, 50 }

ReadingsFor(vec) ==
    { [adc |-> m] :
        m \in { f \in [1..Len(vec.outputs) -> UNION { [1..n -> AdcReadings] :
                                        n \in 1..(MaxVals + 1) }] :
                    \A o \in 1..Len(vec.outputs) :
                        Len(f[o]) = Len(vec.outputs[o].pin_vals) } }

\* test(ser) of the held vector i, while the fixture reads m: the PRM line
\* is written and the method returns; nothing is read, classified or
\* compared, and neither results nor passed is assigned
CallTest(i, m) ==
    /\ call = Idle
    /\ Len(ser) < MaxSer
    /\ call' = [op |-> "test", vec |-> i]
    /\ IF global_params = None
       THEN ret' = Raise("TypeError") /\ UNCHANGED <<ser, measured, ran>>
       ELSE IF ~({"VCC Pin", "GND Pin", "VCC Voltage"} \subseteq DOMAIN global_params.dict)
       THEN ret' = Raise("KeyError") /\ UNCHANGED <<ser, measured, ran>>
       ELSE /\ ser' = Append(ser, prm_line(global_params.dict))
            /\ measured' = m
            /\ ran' = Append(ran, i)
            /\ ret' = Return(None)
    /\ UNCHANGED <<classAttrs, vecs>>

Classifications == { PyStr(sH), PyStr(sL), PyStr(sU) }

\* The execution collaborator stores a classification: results[o][j] = c
WriteResult(i, o, j, c) ==
    /\ call = Idle
    /\ call' = [op |-> "write_result", vec |-> i, o |-> o, j |-> j, c |-> c]
    /\ ret' = Return(None)
    /\ vecs' = [vecs EXCEPT ![i] = write_result(vecs[i], o, j, c)]
    /\ UNCHANGED <<classAttrs, ser, measured, ran>>

ExecScripts == { ScriptA, ScriptD }

NextExec ==
    \/ \E data \in ExecScripts : CallParse(data)
    \/ \E i \in 1..Len(vecs) : \E m \in ReadingsFor(vecs[i]) : CallTest(i, m)
    \/ \E i \in 1..Len(vecs) : \E o \in 1..Len(vecs[i].outputs) :
          \E j \in 1..Len(vecs[i].outputs[o].pin_vals) :
             \E c \in Classifications : WriteResult(i, o, j, c)
    \/ Done

SpecExec == InitTV /\ [][NextExec]_vars

(***************************************************************************)
(* C2: after a test vector has been executed, its passed flag is true iff  *)
(* for every output command and every pin-row the classified measurement   *)
(* equals the expected output value (so a vector whose measurements all    *)
(* match ends with passed = true, and a single "U" makes it false).        *)
(***************************************************************************)
AllMatch(vec, m) ==
    \A o \in 1..Len(vec.outputs) : \A j \in 1..Len(vec.outputs[o].pin_vals) :
        LET expected == vec.outputs[o].pin_vals[j]
        IN  logic_from_thld(global_params, m.adc[o][j], IsInt(expected))
                = Return(expected)

C2_PassedIffAllMatch ==
    (call.op = "test" /\ Returned(ret)) =>
        (vecs[call.vec].passed <=> AllMatch(vecs[call.vec], measured))

(***************************************************************************)
(* C10: a new TestVector's results buffer has the shape and the values of  *)
(* its expected outputs and is a copy of them: whatever is written into    *)
(* results[i][j], every expected value outputs[i].pin_vals[j] is           *)
(* unchanged.                                                              *)
(***************************************************************************)
C10_ExpectedOutputsKept ==
    [][ \A i \in 1..Len(vecs) : vecs'[i].outputs = vecs[i].outputs ]_vars

(***************************************************************************)
(* C11: in a run that executes a sequence of test vectors over one serial  *)
(* channel, the initialization line "PRM:<VCC pin>,<GND pin>,<VCC          *)
(* voltage>\n" is written exactly once, before anything is sent for any    *)
(* test vector: executing k different vectors does not write it k times.   *)
(***************************************************************************)
IsPrmLine(line) == Len(line) >= 4 /\ SubSeq(line, 1, 4) = <<"P", "R", "M", ":">>

PrmLines == { n \in 1..Len(ser) : IsPrmLine(ser[n]) }

\* Every executed vector was executed once: the run is a sequence of
\* different test vectors
RunOfDifferentVectors ==
    \A a, b \in 1..Len(ran) : ran[a] = ran[b] => a = b

C11_PrmWrittenOnce ==
    (Len(ran) >= 1 /\ RunOfDifferentVectors) =>
        /\ Cardinality(PrmLines) = 1
        /\ 1 \in PrmLines

(***************************************************************************)
(* The tables parse_truth_table is called with                             *)
(***************************************************************************)
MaxRows == 2   \* a truth table holds at most MaxRows rows

sB == <<"b">>

\* The column names of a row, in the order the row lists them: a dict holds
\* each key once.  Every name is a text, which check_type requires of the
\* first row's names before any row is read.
RowShapes ==
    { <<>>, <<sCol>>, <<sB>>, <<sH>>, <<sCol, sB>>, <<sB, sCol>>, <<sCol, sH>> }

\* Cells: two reserved logic symbols and a text that is none
CellArgs == { PyStr(sH), PyStr(sL), PyStr(sQ) }

RowArgs ==
    UNION { { [j \in 1..Len(shape) |-> <<shape[j], cells[j]>>] :
                cells \in [1..Len(shape) -> CellArgs] } : shape \in RowShapes }

TruthTableArgs == UNION { [1..n -> RowArgs] : n \in 0..MaxRows }

CallParseTruthTable(truth_table) ==
    /\ call = Idle
    /\ call' = [op |-> "parse_truth_table", truth_table |-> truth_table]
    /\ ret' = parse_truth_table(truth_table)
    /\ UNCHANGED <<classAttrs, runState>>

NextTT ==
    \/ /\ call = Idle
       /\ \E truth_table \in TruthTableArgs : CallParseTruthTable(truth_table)
    \/ Done

SpecTT == InitTV /\ [][NextTT]_vars

(***************************************************************************)
(* C12: parse_truth_table on a non-empty list of rows succeeds iff every   *)
(* row has the column count and the column names of the first row, no      *)
(* column name is a reserved logic symbol and every cell is one; on        *)
(* success each column name maps to a sequence as long as the table whose  *)
(* i-th element is row i's cell for that column; a row with fewer columns  *)
(* fails.                                                                  *)
(***************************************************************************)
TableCalled == call.op = "parse_truth_table" /\ Len(call.truth_table) >= 1

CellOf(row, col) == row[CHOOSE j \in 1..Len(row) : row[j][1] = col][2]

TableWellFormed(t) ==
    \A i \in 1..Len(t) :
        /\ Len(t[i]) = Len(t[1])
        /\ RowKeys(t[i]) = RowKeys(t[1])
        /\ \A j \in 1..Len(t[i]) :
              /\ t[i][j][1] \notin TRUTH_TABLE_LOGIC
              /\ IsStr(t[i][j][2])
              /\ t[i][j][2].str \in TRUTH_TABLE_LOGIC

sIL == "Input Low"
sIH == "Input High"
sCLK == "CLK Freq"

\* Thresholds in tenths of a volt, one of them negative
ThldArgs == (-1)..MaxThld

OptionalThlds ==
    { <<>> } \cup { (sIL :> lo) : lo \in ThldArgs }
    \cup { (sIH :> hi) : hi \in ThldArgs }
    \cup { (sIL :> lo) @@ (sIH :> hi) : lo \in ThldArgs, hi \in ThldArgs }

\* CLK Freq: absent, a number, or a text with or without a unit
ClkFreqArgs ==
    { <<>> } \cup { (sCLK :> PyInt(n)) : n \in {-1, 0, 5} }
    \cup { (sCLK :> PyStr(t)) :
             t \in { <<"1", " ", "k">>, <<"1", ".", "5", " ", "M">>,
                     <<"1", "k">>, <<"a", " ", "k">>, <<>> } }

GlobalParamsArgs ==
    { GlobalParams(6, 7, s5V, lo, hi) @@ opt @@ clk :
        lo \in ThldArgs, hi \in ThldArgs, opt \in OptionalThlds,
        clk \in ClkFreqArgs }
    \cup { GlobalParams(6, 6, s5V, 1, 2), GlobalParams(6, 21, s5V, 1, 2),
           GlobalParams(6, 7, <<"7", "V">>, 1, 2), Without(GP_A, "Output Low") }

CallParseGlobalParams(gp) ==
    /\ call = Idle
    /\ call' = [op |-> "parse_global_params", global_params |-> gp]
    /\ ret' = parse_global_params(gp)
    /\ UNCHANGED <<classAttrs, runState>>

NextGP ==
    \/ /\ call = Idle
       /\ \E gp \in GlobalParamsArgs : CallParseGlobalParams(gp)
    \/ Done

SpecGP == InitTV /\ [][NextGP]_vars

(***************************************************************************)
(* C13: parse_global_params rejects every parameter set in which a present *)
(* threshold is negative, or Output Low >= Output High, or Input Low and   *)
(* Input High are both present with Input Low >= Input High (also when one *)
(* or both of them are 0); it accepts every otherwise valid set with       *)
(* non-negative thresholds and Low < High in each present pair.            *)
(***************************************************************************)
GpCalled == call.op = "parse_global_params"

\* Valid apart from the thresholds, and without a clock frequency
ValidApartFromThlds(gp) ==
    /\ {"VCC Pin", "GND Pin", "VCC Voltage", "Output Low", "Output High"}
           \subseteq DOMAIN gp
    /\ gp["VCC Pin"] \in 1..MAX_PINS
    /\ gp["GND Pin"] \in 1..MAX_PINS
    /\ gp["VCC Pin"] # gp["GND Pin"]
    /\ gp["VCC Voltage"] \in SUPPORTED_VOLTAGES
    /\ sCLK \notin DOMAIN gp

ThldsRejected(gp) ==
    \/ \E key \in {"Output Low", "Output High", sIL, sIH} \cap DOMAIN gp :
          gp[key] < 0
    \/ gp["Output Low"] >= gp["Output High"]
    \/ {sIL, sIH} \subseteq DOMAIN gp /\ gp[sIL] >= gp[sIH]

C13_ThresholdsChecked ==
    (GpCalled /\ ValidApartFromThlds(call.global_params)) =>
        (Raised(ret) <=> ThldsRejected(call.global_params))

(***************************************************************************)
(* C14: a text CLK Freq is rejected with a clock-format error iff it does  *)
(* not match "<number>[.<number>] <k|M>"; a matching text is normalized to *)
(* number x 1000 (k) or number x 1000000 (M), stored back as the numeric   *)
(* CLK Freq, and accepted iff that number lies in the configured range.    *)
(***************************************************************************)
IsNumberText(t) ==
    LET p == split(t, ".")
    IN  \/ Len(p) = 1 /\ isdigit(p[1])
        \/ Len(p) = 2 /\ isdigit(p[1]) /\ isdigit(p[2])

MatchesClkText(t) ==
    LET p == split(t, " ")
    IN  Len(p) = 2 /\ IsNumberText(p[1]) /\ p[2] \in { <<"k">>, <<"M">> }

NormalizedClk(t) ==
    LET p == split(t, " ")
        n == split(p[1], ".")
        mult == IF p[2] = <<"k">> THEN 1000 ELSE 1000000
    IN  IF Len(n) = 1 THEN int_base10(n[1]) * mult
        ELSE (int_base10(n[1] \o n[2]) * mult) \div (10 ^ Len(n[2]))

\* A parameter set that is valid apart from its CLK Freq, which is a text
ClkTextCalled ==
    /\ GpCalled
    /\ sCLK \in DOMAIN call.global_params
    /\ IsStr(call.global_params[sCLK])
    /\ Len(call.global_params[sCLK].str) > 0
    /\ ValidApartFromThlds(Without(call.global_params, sCLK))
    /\ ~ThldsRejected(call.global_params)
    /\ \A key \in {sIL, sIH} \cap DOMAIN call.global_params :
          call.global_params[key] # 0

C14_ClkFreqText ==
    ClkTextCalled =>
        LET t == call.global_params[sCLK].str
        IN  IF ~MatchesClkText(t) THEN ret = Raise("ValueError")
            ELSE /\ Returned(ret) <=>
                        /\ CLOCK_MIN <= NormalizedClk(t)
                        /\ NormalizedClk(t) <= CLOCK_MAX
                 /\ Returned(ret) => ret.ret[sCLK] = PyInt(NormalizedClk(t))
                 /\ Raised(ret) => ret = Raise("ValueError")

(***************************************************************************)
(* C15: in every successfully compiled test, each non-integer value of an  *)
(* input IOCommand is in the input vocabulary and each non-integer value   *)
(* of an output IOCommand is in the output vocabulary, also when the value *)
(* came from a truth-table column referenced by identifier.                *)
(***************************************************************************)
ParseSucceeded == call.op = "parse" /\ Returned(ret)

ValuesWithin(cmds, vocabulary) ==
    \A c \in 1..Len(cmds) : \A j \in 1..Len(cmds[c].pin_vals) :
        IsStr(cmds[c].pin_vals[j]) => cmds[c].pin_vals[j].str \in vocabulary

C15_VocabularySeparation ==
    ParseSucceeded =>
        \A v \in 1..Len(ret.ret[2]) :
            /\ ValuesWithin(ret.ret[2][v].inputs, INPUT_LOGIC)
            /\ ValuesWithin(ret.ret[2][v].outputs, OUTPUT_LOGIC)

(***************************************************************************)
(* C16: after a successful parse(), no pin referenced by an input or       *)
(* output IOCommand, by Pin Map name or by bare number, resolves to the    *)
(* script's VCC Pin or GND Pin, and every referenced pin resolves to an    *)
(* index in 1..20.                                                         *)
(***************************************************************************)
PinsOffPower(cmds, data) ==
    \A c \in 1..Len(cmds) : \A j \in 1..Len(cmds[c].pins) :
        LET pin == resolve_pin(Section(data, "Pin Map"), cmds[c].pins[j])
        IN  /\ Returned(pin)
            /\ pin.ret \in 1..MAX_PINS
            /\ pin.ret # data["Global Parameters"].dict["VCC Pin"]
            /\ pin.ret # data["Global Parameters"].dict["GND Pin"]

C16_PowerPinsExclusive ==
    ParseSucceeded =>
        \A v \in 1..Len(ret.ret[2]) :
            /\ PinsOffPower(ret.ret[2][v].inputs, call.data)
            /\ PinsOffPower(ret.ret[2][v].outputs, call.data)

====
